---- MODULE Spec2Model ----
(***************************************************************************)
(* A model of weekly_report.py: the weekly club leaderboard pipeline       *)
(*   kst_now -> last_week_range_kst -> refresh_strava_access_token ->      *)
(*   fetch_club_activities -> build_leaderboard -> format_post_text ->     *)
(*   post_to_band -> print.                                                *)
(*                                                                         *)
(* Time.  A datetime is a record [wall, off]: wall is the wall-clock       *)
(* reading in ticks since 0001-01-01T00:00 (proleptic ordinal day 1, a     *)
(* Monday), off is the UTC offset in ticks.  Aware datetimes compare by    *)
(* the instant wall - off, as Python's datetime does.                      *)
(*                                                                         *)
(* Floats.  A float is a natural number of quanta (the smallest            *)
(* subnormal) whose binary significand fits in MantBits bits; every        *)
(* arithmetic result is rounded to the nearest such number, ties to the    *)
(* even significand, as IEEE-754 binary64 does with 53 bits.               *)
(***************************************************************************)
EXTENDS Integers, Sequences, FiniteSets, TLC

VARIABLES
    pc,            \* position of main(): start, refresh, fetch, build, format, post, print, done, failed
    TOP_N,         \* module-level configuration int(os.environ.get("TOP_N", "20"))
    now,           \* main: now = kst_now()
    start_kst,     \* main: start of the window
    end_kst,       \* main: end of the window
    access_token,  \* main: the refreshed token, "" while unset
    page,          \* fetch_club_activities: the loop variable
    fetched,       \* fetch_club_activities: its local list `activities`
    requests,      \* history: page numbers of the GET requests issued, in order
    batches,       \* history: the JSON batches received with a passing status, in order
    activities,    \* main: the list returned by fetch_club_activities
    leaderboard,   \* main: rows returned by build_leaderboard
    text,          \* main: lines returned by format_post_text
    posts,         \* history: number of POSTs sent to the messaging API
    post_resp,     \* history: <<the messaging API's response>>, <<>> before the POST
    refresh_resp,  \* history: <<the token endpoint's response>>, <<>> before the refresh
    printed,       \* history: the success confirmation was printed
    by_athlete,    \* build_leaderboard: its dict, as a sequence of entries in insertion order
    error          \* the exception that terminated main, "" if none

vars == <<pc, TOP_N, now, start_kst, end_kst, access_token, page, fetched, requests,
          batches, activities, by_athlete, leaderboard, text, posts,
          post_resp, refresh_resp, printed, error>>

----------------------------------------------------------------------------
(* Bounds of the model *)

\* ticks per hour: the resolution of the clock
TicksPerHour == 1
\* bits of a float's significand
MantBits == 3
\* quanta (smallest float steps) per unit (per metre, per kilometre)
QuantaPerUnit == 8
\* longest activity list drawn for the aggregation specifications
MaxActs == 3
\* days of `now` explored by the window specification
NowDays == 15

(* Program constants *)

KstHours == 9
DaysPerWeek == 7
MetersPerKm == 1000
DefaultTopN == 20
DefaultMaxPages == 10

TicksPerDay == 24 * TicksPerHour
KstOff == KstHours * TicksPerHour

Min(a, b) == IF a <= b THEN a ELSE b
Max(a, b) == IF a >= b THEN a ELSE b

----------------------------------------------------------------------------
(* Floating point *)

RECURSIVE Pow2(_)
Pow2(n) == IF n = 0 THEN 1 ELSE 2 * Pow2(n - 1)

\* the spacing of floats around x >= 0
RECURSIVE FUlp(_)
FUlp(x) == IF x < Pow2(MantBits) THEN 1 ELSE 2 * FUlp(x \div 2)

\* the float nearest to the rational n / d (n >= 0, d > 0), ties to even
FRoundRat(n, d) ==
    LET u  == FUlp(n \div d)
        lo == ((n \div d) \div u) * u
        r2 == 2 * (n - lo * d)
    IN  IF r2 < u * d THEN lo
        ELSE IF r2 > u * d THEN lo + u
        ELSE IF (lo \div u) % 2 = 0 THEN lo ELSE lo + u

FRound(x) == FRoundRat(x, 1)
IsFloat(x) == FRound(x) = x

\* a + b on floats
FAdd(a, b) == FRound(a + b)
\* a / k on floats, k an exactly representable constant
FDiv(a, k) == FRoundRat(a, k)

\* round half to even of n / d, to an integer
RoundHalfEven(n, d) ==
    LET q  == n \div d
        r2 == 2 * (n - q * d)
    IN  IF r2 < d THEN q
        ELSE IF r2 > d THEN q + 1
        ELSE IF q % 2 = 0 THEN q ELSE q + 1

\* format(x, ".1f"): the number of tenths printed
Fmt1(x) == RoundHalfEven(10 * x, QuantaPerUnit)
\* format(x, ".0f"): the integer printed
Fmt0(x) == RoundHalfEven(x, QuantaPerUnit)

\* sum(seq of floats): a left fold starting from the int 0
RECURSIVE FSumTo(_, _)
FSumTo(s, n) == IF n = 0 THEN 0 ELSE FAdd(FSumTo(s, n - 1), s[n])
FSum(s) == FSumTo(s, Len(s))

\* sum of a sequence of ints
RECURSIVE ISumTo(_, _)
ISumTo(s, n) == IF n = 0 THEN 0 ELSE ISumTo(s, n - 1) + s[n]
ISum(s) == ISumTo(s, Len(s))

----------------------------------------------------------------------------
(* Time *)

Dt(wall, off) == [wall |-> wall, off |-> off]
Instant(dt) == dt.wall - dt.off
DtLe(a, b) == Instant(a) <= Instant(b)
DtLt(a, b) == Instant(a) < Instant(b)

\* datetime.weekday(): Monday is 0
Weekday(dt) == (dt.wall \div TicksPerDay) % DaysPerWeek
\* dt - timedelta(days = n)
MinusDays(dt, n) == [dt EXCEPT !.wall = @ - n * TicksPerDay]
\* dt.replace(hour=0, minute=0, second=0, microsecond=0)
ReplaceMidnight(dt) == [dt EXCEPT !.wall = @ - (@ % TicksPerDay)]
\* the day number printed by strftime("%m/%d")
DateStr(dt) == dt.wall \div TicksPerDay

\* a mutation of last_week_range_kst: isoweekday() (Monday is 1) for weekday()
last_week_range_kst_iso(now_kst) ==
    LET this_monday == ReplaceMidnight(MinusDays(now_kst, Weekday(now_kst) + 1))
    IN  [start |-> MinusDays(this_monday, DaysPerWeek), end |-> this_monday]

last_week_range_kst(now_kst) ==
    LET this_monday == ReplaceMidnight(MinusDays(now_kst, Weekday(now_kst)))
    IN  [start |-> MinusDays(this_monday, DaysPerWeek), end |-> this_monday]

\* the UTC offset fromisoformat reads from the suffix of an ISO string
ParseOffset(suffix) == IF suffix = "+09:00" THEN KstOff ELSE 0

\* dt_str is [wall, suffix]: the date-time part of the string and its offset suffix
to_kst(dt_str) ==
    LET s      == IF dt_str.suffix = "Z" THEN [dt_str EXCEPT !.suffix = "+00:00"] ELSE dt_str
        dt_utc == Dt(s.wall, ParseOffset(s.suffix))
    IN  Dt(dt_utc.wall - dt_utc.off + KstOff, KstOff)

----------------------------------------------------------------------------
(* JSON access *)

\* an optional JSON field is <<>> when absent and <<v>> when present
Get(field, default) == IF field = <<>> THEN default ELSE field[1]

\* str.strip() on a sequence of characters
RECURSIVE LStrip(_)
LStrip(s) == IF s # <<>> /\ Head(s) = " " THEN LStrip(Tail(s)) ELSE s
RECURSIVE RStrip(_)
RStrip(s) == IF s # <<>> /\ s[Len(s)] = " " THEN RStrip(SubSeq(s, 1, Len(s) - 1)) ELSE s
Strip(s) == RStrip(LStrip(s))

\* s[:n] of Python, n any integer
PySlicePrefix(s, n) ==
    IF n >= 0 THEN SubSeq(s, 1, Min(n, Len(s))) ELSE SubSeq(s, 1, Max(Len(s) + n, 0))

----------------------------------------------------------------------------
(* build_leaderboard *)

\* a mutation of InWindow: the window is closed at its end
InWindowClosed(dt, start, end) == DtLe(start, dt) /\ DtLe(dt, end)

\* start_kst <= dt < end_kst
InWindow(dt, start, end) == DtLe(start, dt) /\ DtLt(dt, end)

\* str(athlete_id); the id is <<>> when a.get("athlete", {}).get("id") is None
IdStr(id) == IF id = <<>> THEN "None" ELSE ToString(id[1])

DisplayName(a) ==
    LET name == Strip(a.firstname \o <<" ">> \o a.lastname)
    IN  IF name # <<>> THEN name ELSE <<"athlete_", IdStr(a.id)>>

HasAthlete(by, id) == \E i \in 1..Len(by) : by[i].id = id
IndexOf(by, id) == CHOOSE i \in 1..Len(by) : by[i].id = id

NewEntry(a) == [id |-> a.id, name |-> DisplayName(a), dist_m |-> 0, elev_m |-> 0, rides |-> 0]

\* a mutation of AddActivity: the entry is created anew for every activity
AddActivityReset(by, a, start, end) ==
    IF ~InWindow(to_kst(a.start_date), start, end) THEN by
    ELSE LET dist_m == FRound(Get(a.distance, 0))
             elev_m == FRound(Get(a.total_elevation_gain, 0))
             by1    == IF HasAthlete(by, a.id) THEN by ELSE Append(by, NewEntry(a))
             i      == IndexOf(by1, a.id)
         IN  [by1 EXCEPT ![i] = [NewEntry(a) EXCEPT !.dist_m = dist_m,
                                                    !.elev_m = elev_m,
                                                    !.rides  = 1]]

\* one iteration of the loop over the activities
AddActivity(by, a, start, end) ==
    IF ~InWindow(to_kst(a.start_date), start, end) THEN by
    ELSE LET dist_m == FRound(Get(a.distance, 0))
             elev_m == FRound(Get(a.total_elevation_gain, 0))
             by1    == IF HasAthlete(by, a.id) THEN by ELSE Append(by, NewEntry(a))
             i      == IndexOf(by1, a.id)
         IN  [by1 EXCEPT ![i].dist_m = FAdd(@, dist_m),
                         ![i].elev_m = FAdd(@, elev_m),
                         ![i].rides  = @ + 1]

\* the loop over the first n activities
RECURSIVE AggregateTo(_, _, _, _)
AggregateTo(acts, n, start, end) ==
    IF n = 0 THEN <<>>
    ELSE AddActivity(AggregateTo(acts, n - 1, start, end), acts[n], start, end)

Aggregate(acts, start, end) == AggregateTo(acts, Len(acts), start, end)

Row(v) == [name |-> v.name, km |-> FDiv(v.dist_m, MetersPerKm), elev |-> v.elev_m, rides |-> v.rides]
Rows(by) == [i \in 1..Len(by) |-> Row(by[i])]

\* (a.km, a.elev) < (b.km, b.elev), as tuples
KeyLt(a, b) == a.km < b.km \/ (a.km = b.km /\ a.elev < b.elev)

\* r inserted after every row that does not sort below it
InsertDesc(sorted, r) ==
    LET p == Cardinality({i \in 1..Len(sorted) : ~KeyLt(sorted[i], r)})
    IN  SubSeq(sorted, 1, p) \o <<r>> \o SubSeq(sorted, p + 1, Len(sorted))

RECURSIVE SortTo(_, _)
SortTo(rows, n) == IF n = 0 THEN <<>> ELSE InsertDesc(SortTo(rows, n - 1), rows[n])

\* a mutation of SortDesc: the rows are left in insertion order
SortDescNone(rows) == rows

\* rows.sort(key = (km, elev), reverse = True): descending and stable
SortDesc(rows) == SortTo(rows, Len(rows))

build_leaderboard(acts, start, end) == SortDesc(Rows(Aggregate(acts, start, end)))

----------------------------------------------------------------------------
(* format_post_text *)

RankLine(i, row) ==
    [kind |-> "rank", rank |-> i, name |-> row.name, km |-> Fmt1(row.km),
     elev |-> Fmt0(row.elev), rides |-> row.rides]

Column(lb, f) == [i \in 1..Len(lb) |-> lb[i][f]]

\* a mutation of SummaryLine: the totals are taken over the printed rows only
SummaryLineTop(lb, n) ==
    LET top == PySlicePrefix(lb, n)
    IN  [kind |-> "summary", km |-> Fmt1(FSum(Column(top, "km"))),
         elev |-> Fmt0(FSum(Column(top, "elev"))),
         rides |-> ISum(Column(top, "rides")), participants |-> Len(top)]

SummaryLine(lb, n) ==
    [kind |-> "summary", km |-> Fmt1(FSum(Column(lb, "km"))),
     elev |-> Fmt0(FSum(Column(lb, "elev"))),
     rides |-> ISum(Column(lb, "rides")), participants |-> Len(lb)]

\* a mutation of RankedLines: every row is printed
RankedLinesAll(lb, n) == [i \in 1..Len(lb) |-> RankLine(i, lb[i])]

\* enumerate(leaderboard[:TOP_N], start = 1)
RankedLines(lb, n) ==
    LET top == PySlicePrefix(lb, n)
    IN  [i \in 1..Len(top) |-> RankLine(i, top[i])]

Preamble(start, end) ==
    << [kind |-> "header", start_s |-> DateStr(start), end_s |-> DateStr(MinusDays(end, 1))],
       [kind |-> "blank"],
       [kind |-> "legend"],
       [kind |-> "blank"] >>

\* a mutation of format_post_text: the empty leaderboard is not treated apart
format_post_text_noempty(start, end, lb, n) ==
    Preamble(start, end)
        \o << [kind |-> "top", k |-> Min(n, Len(lb))] >>
        \o RankedLines(lb, n)
        \o << [kind |-> "blank"], SummaryLine(lb, n) >>

\* the lines joined by "\n", as a sequence of lines
format_post_text(start, end, lb, n) ==
    IF lb = <<>>
    THEN Preamble(start, end) \o << [kind |-> "none"] >>
    ELSE Preamble(start, end)
            \o << [kind |-> "top", k |-> Min(n, Len(lb))] >>
            \o RankedLines(lb, n)
            \o << [kind |-> "blank"], SummaryLine(lb, n) >>

----------------------------------------------------------------------------
(* HTTP *)

\* requests.Response.raise_for_status raises for 4xx and 5xx
RaisesForStatus(status) == 400 <= status /\ status < 600

\* JSON values: an integer, true or false, a string of digits
JInt(n) == [t |-> "int", n |-> n]
JBool(n) == [t |-> "bool", n |-> n]
JStr(n) == [t |-> "str", n |-> n]

\* v != 1 of Python, v the optional field j.get("result_code"): None and a
\* string differ from 1, True equals 1
PyNe1(v) == v = <<>> \/ v[1].t = "str" \/ v[1].n # 1

\* a mutation of post_to_band: the result code is not looked at
post_to_band_nocode(resp) ==
    IF RaisesForStatus(resp.status) THEN "HTTPError" ELSE "ok"

\* the outcome of post_to_band on the response resp = [status, result_code];
\* result_code is the optional field j.get("result_code")
post_to_band(resp) ==
    IF RaisesForStatus(resp.status) THEN "HTTPError"
    ELSE IF PyNe1(resp.result_code) THEN "RuntimeError"
    ELSE "ok"

\* the outcome of refresh_strava_access_token on resp = [status, access_token]
refresh_strava_access_token(resp) ==
    IF RaisesForStatus(resp.status) THEN "HTTPError"
    ELSE IF resp.access_token = <<>> THEN "KeyError"
    ELSE "ok"

max_pages == DefaultMaxPages

\* a mutation of FetchOutcome: an empty batch does not end the loop
FetchOutcomeNoBreak(resp, p, acc) ==
    IF RaisesForStatus(resp.status)
    THEN [pc |-> "failed", error |-> "fetch:HTTPError", page |-> p, fetched |-> acc,
          activities |-> <<>>, read |-> FALSE]
    ELSE IF p = max_pages
    THEN [pc |-> "build", error |-> "", page |-> p, fetched |-> acc \o resp.batch,
          activities |-> acc \o resp.batch, read |-> TRUE]
    ELSE [pc |-> "fetch", error |-> "", page |-> p + 1, fetched |-> acc \o resp.batch,
          activities |-> <<>>, read |-> TRUE]

\* a mutation of FetchOutcome: a failed page request ends the loop with what was fetched
FetchOutcomeSwallow(resp, p, acc) ==
    IF RaisesForStatus(resp.status)
    THEN [pc |-> "build", error |-> "", page |-> p, fetched |-> acc,
          activities |-> acc, read |-> FALSE]
    ELSE IF resp.batch = <<>>
    THEN [pc |-> "build", error |-> "", page |-> p, fetched |-> acc,
          activities |-> acc, read |-> TRUE]
    ELSE IF p = max_pages
    THEN [pc |-> "build", error |-> "", page |-> p, fetched |-> acc \o resp.batch,
          activities |-> acc \o resp.batch, read |-> TRUE]
    ELSE [pc |-> "fetch", error |-> "", page |-> p + 1, fetched |-> acc \o resp.batch,
          activities |-> <<>>, read |-> TRUE]

\* one iteration of the loop of fetch_club_activities, on the response
\* resp = [status, batch] to the request for page p, with acc fetched so far:
\* where main goes next, and what fetch_club_activities returns when it returns
FetchOutcome(resp, p, acc) ==
    IF RaisesForStatus(resp.status)
    THEN [pc |-> "failed", error |-> "fetch:HTTPError", page |-> p, fetched |-> acc,
          activities |-> <<>>, read |-> FALSE]
    ELSE IF resp.batch = <<>>
    THEN [pc |-> "build", error |-> "", page |-> p, fetched |-> acc,
          activities |-> acc, read |-> TRUE]
    ELSE IF p = max_pages
    THEN [pc |-> "build", error |-> "", page |-> p, fetched |-> acc \o resp.batch,
          activities |-> acc \o resp.batch, read |-> TRUE]
    ELSE [pc |-> "fetch", error |-> "", page |-> p + 1, fetched |-> acc \o resp.batch,
          activities |-> <<>>, read |-> TRUE]

----------------------------------------------------------------------------
(* Inputs *)

\* the statuses the three endpoints answer with
Statuses == {200, 201, 304, 404, 500}

FirstName(id) == IF id = <<1>> THEN <<"A">> ELSE <<>>
LastName(id) == IF id = <<2>> THEN <<"B">> ELSE <<>>

\* an activity object of the club activities endpoint; id is <<>> when the
\* object names no athlete id
Act(id, start_date, distance, elev) ==
    [id |-> id, firstname |-> FirstName(id), lastname |-> LastName(id),
     start_date |-> start_date, distance |-> distance, total_elevation_gain |-> elev]

\* ISO strings of the instant whose +09:00 wall clock reads w
IsoZ(w) == [wall |-> w - KstOff, suffix |-> "Z"]
IsoUtc(w) == [wall |-> w - KstOff, suffix |-> "+00:00"]
IsoKst(w) == [wall |-> w, suffix |-> "+09:00"]

\* Monday 00:00 of the second and of the third week, on the +09:00 wall clock
MondayA == DaysPerWeek * TicksPerDay
MondayB == 2 * DaysPerWeek * TicksPerDay
\* a Wednesday noon, whose last week is [MondayA, MondayB)
NowA == Dt(MondayB + 2 * TicksPerDay + 12 * TicksPerHour, KstOff)
\* a Monday 00:00 exactly, whose last week is [MondayB, MondayB + 7 days)
NowB == Dt(MondayB + DaysPerWeek * TicksPerDay, KstOff)

SmallDist == Pow2(10)
BigDist == SmallDist * Pow2(MantBits)

SeqsUpTo(S, n) == UNION {[1..k -> S] : k \in 0..n}

\* activities around the two ends of [MondayA, MondayB), in three spellings
FilterActs ==
    {Act(id, sd, <<SmallDist>>, <<>>) :
        id \in {<<1>>, <<2>>},
        sd \in {IsoZ(MondayA - 1), IsoKst(MondayA - 1), IsoZ(MondayA), IsoKst(MondayA),
                IsoUtc(MondayB - 1), IsoKst(MondayB - 1), IsoZ(MondayB), IsoKst(MondayB)}}

\* activities of three athletes inside [MondayA, MondayB), one outside, and one
\* inside that names no athlete id
BoardActs ==
    {Act(id, IsoZ(MondayA), <<de[1]>>, <<de[2]>>) :
        id \in {<<1>>, <<2>>, <<3>>},
        de \in {<<SmallDist, 0>>, <<SmallDist, QuantaPerUnit>>, <<BigDist, 0>>}}
    \cup {Act(<<1>>, IsoZ(MondayB), <<SmallDist>>, <<QuantaPerUnit>>),
          Act(<<>>, IsoZ(MondayA), <<SmallDist>>, <<>>)}

\* the pages the activities endpoint answers with
Batches ==
    { <<>>,
      << Act(<<1>>, IsoZ(MondayA), <<SmallDist>>, <<QuantaPerUnit>>) >>,
      << Act(<<2>>, IsoZ(MondayB - 1), <<BigDist>>, <<>>), Act(<<1>>, IsoZ(MondayB), <<SmallDist>>, <<>>) >> }

RefreshResponses == [status : Statuses, access_token : {<<>>, <<"tok">>}]
PageResponses == [status : Statuses, batch : Batches]
PostResponses ==
    [status : Statuses,
     result_code : {<<>>, <<JInt(0)>>, <<JInt(1)>>, <<JInt(2)>>, <<JBool(1)>>, <<JStr(1)>>}]

----------------------------------------------------------------------------
(* main *)

NoDt == Dt(0, 0)

InitAt(p, n, topn, w, acts) ==
    /\ pc = p
    /\ TOP_N = topn
    /\ now = n
    /\ start_kst = w.start
    /\ end_kst = w.end
    /\ access_token = ""
    /\ page = 1
    /\ fetched = <<>>
    /\ requests = <<>>
    /\ batches = <<>>
    /\ activities = acts
    /\ by_athlete = <<>>
    /\ leaderboard = <<>>
    /\ text = <<>>
    /\ posts = 0
    /\ post_resp = <<>>
    /\ refresh_resp = <<>>
    /\ printed = FALSE
    /\ error = ""

\* start_kst, end_kst = last_week_range_kst(now)
ComputeWindow ==
    /\ pc = "start"
    /\ start_kst' = last_week_range_kst(now).start
    /\ end_kst' = last_week_range_kst(now).end
    /\ pc' = "refresh"
    /\ UNCHANGED <<TOP_N, now, access_token, page, fetched, requests, batches, activities,
                   by_athlete, leaderboard, text, posts, post_resp, refresh_resp, printed, error>>

\* access_token = refresh_strava_access_token()
Refresh(resp) ==
    /\ pc = "refresh"
    /\ refresh_resp' = <<resp>>
    /\ IF refresh_strava_access_token(resp) = "ok"
       THEN /\ access_token' = resp.access_token[1]
            /\ pc' = "fetch"
            /\ error' = ""
       ELSE /\ access_token' = access_token
            /\ pc' = "failed"
            /\ error' = "refresh:" \o refresh_strava_access_token(resp)
    /\ page' = 1
    /\ fetched' = <<>>
    /\ UNCHANGED <<TOP_N, now, start_kst, end_kst, requests, batches, activities,
                   by_athlete, leaderboard, text, posts, post_resp, printed>>

\* one request of fetch_club_activities, and its return when the loop ends
FetchPage(resp) ==
    /\ pc = "fetch"
    /\ page <= max_pages
    /\ requests' = Append(requests, page)
    /\ LET o == FetchOutcome(resp, page, fetched)
       IN  /\ batches' = IF o.read THEN Append(batches, resp.batch) ELSE batches
           /\ pc' = o.pc
           /\ error' = o.error
           /\ page' = o.page
           /\ fetched' = o.fetched
           /\ activities' = o.activities
    /\ UNCHANGED <<TOP_N, now, start_kst, end_kst, access_token, by_athlete, leaderboard,
                   text, posts, post_resp, refresh_resp, printed>>

\* leaderboard = build_leaderboard(activities, start_kst, end_kst)
Build ==
    /\ pc = "build"
    /\ by_athlete' = Aggregate(activities, start_kst, end_kst)
    /\ leaderboard' = build_leaderboard(activities, start_kst, end_kst)
    /\ pc' = "format"
    /\ UNCHANGED <<TOP_N, now, start_kst, end_kst, access_token, page, fetched, requests,
                   batches, activities, text, posts, post_resp, refresh_resp, printed, error>>

\* text = format_post_text(start_kst, end_kst, leaderboard)
Format ==
    /\ pc = "format"
    /\ text' = format_post_text(start_kst, end_kst, leaderboard, TOP_N)
    /\ pc' = "post"
    /\ UNCHANGED <<TOP_N, now, start_kst, end_kst, access_token, page, fetched, requests,
                   batches, activities, by_athlete, leaderboard, posts, post_resp,
                   refresh_resp, printed, error>>

\* post_to_band(text)
Post(resp) ==
    /\ pc = "post"
    /\ posts' = posts + 1
    /\ post_resp' = <<resp>>
    /\ IF post_to_band(resp) = "ok"
       THEN pc' = "print" /\ error' = ""
       ELSE pc' = "failed" /\ error' = "post:" \o post_to_band(resp)
    /\ UNCHANGED <<TOP_N, now, start_kst, end_kst, access_token, page, fetched, requests,
                   batches, activities, by_athlete, leaderboard, text, refresh_resp, printed>>

\* print("Posted to BAND successfully."); print(text)
PrintDone ==
    /\ pc = "print"
    /\ printed' = TRUE
    /\ pc' = "done"
    /\ UNCHANGED <<TOP_N, now, start_kst, end_kst, access_token, page, fetched, requests,
                   batches, activities, by_athlete, leaderboard, text, posts, post_resp,
                   refresh_resp, error>>

\* one run of main()
Init ==
    \E n \in {NowA, NowB} :
        InitAt("start", n, DefaultTopN, [start |-> NoDt, end |-> NoDt], <<>>)

Next ==
    \/ ComputeWindow
    \/ \E resp \in RefreshResponses : Refresh(resp)
    \/ \E resp \in PageResponses : FetchPage(resp)
    \/ Build
    \/ Format
    \/ \E resp \in PostResponses : Post(resp)
    \/ PrintDone

Spec == Init /\ [][Next]_vars

\* last_week_range_kst on every hour of NowDays days
InitWindow ==
    \E t \in (DaysPerWeek * TicksPerDay) .. ((DaysPerWeek + NowDays) * TicksPerDay - 1) :
        InitAt("start", Dt(t, KstOff), DefaultTopN, [start |-> NoDt, end |-> NoDt], <<>>)

NextWindow == ComputeWindow

SpecWindow == InitWindow /\ [][NextWindow]_vars

\* build_leaderboard and format_post_text on activities around the window's ends
InitFilter ==
    \E n \in {NowA, NowB}, acts \in SeqsUpTo(FilterActs, MaxActs) :
        InitAt("build", n, DefaultTopN, last_week_range_kst(n), acts)

\* build_leaderboard and format_post_text on the activities of three athletes
InitBoard ==
    \E topn \in {0 - 1, 0, 1, 2, DefaultTopN}, acts \in SeqsUpTo(BoardActs, MaxActs) :
        InitAt("build", NowA, topn, last_week_range_kst(NowA), acts)

\* build_leaderboard on the activities of two athletes, in every order
PermActs ==
    {Act(id, IsoZ(MondayA), <<de[1]>>, <<de[2]>>) :
        id \in {<<1>>, <<>>},
        de \in {<<SmallDist, 0>>, <<SmallDist, QuantaPerUnit>>, <<BigDist, 0>>}}
    \cup {Act(<<1>>, IsoZ(MondayB), <<SmallDist>>, <<QuantaPerUnit>>)}

InitPerm ==
    \E acts \in SeqsUpTo(PermActs, MaxActs) :
        InitAt("build", NowA, DefaultTopN, last_week_range_kst(NowA), acts)

NextBoard == Build \/ Format

SpecFilter == InitFilter /\ [][NextBoard]_vars
SpecBoard == InitBoard /\ [][NextBoard]_vars
SpecPerm == InitPerm /\ [][NextBoard]_vars

----------------------------------------------------------------------------
(* What the properties are stated with *)

\* the +09:00 wall clock reading of the instant an activity's start_date names
KstWallOf(a) ==
    a.start_date.wall - (IF a.start_date.suffix = "+09:00" THEN KstHours * TicksPerHour ELSE 0)
        + KstHours * TicksPerHour

\* start <= t < end on the +09:00 wall clock
InWin(a) == start_kst.wall <= KstWallOf(a) /\ KstWallOf(a) < end_kst.wall

InWinIdx == {i \in 1..Len(activities) : InWin(activities[i])}
InWinIds == {activities[i].id : i \in InWinIdx}

\* the in-window activities of one athlete, in input order
MineOf(acts, id) ==
    LET Test(a) == a.id = id /\ InWin(a)
    IN  SelectSeq(acts, Test)

FloatsOf(acts, f) == [i \in 1..Len(acts) |-> FRound(Get(acts[i][f], 0))]

Built == pc \in {"format", "post"}
Formatted == pc = "post"

Perms(n) == {f \in [1..n -> 1..n] : \A i, j \in 1..n : f[i] = f[j] => i = j}
Permute(s, f) == [i \in 1..Len(s) |-> s[f[i]]]

TotalsOf(by) == {[id |-> by[i].id, dist_m |-> by[i].dist_m, elev_m |-> by[i].elev_m,
                  rides |-> by[i].rides] : i \in 1..Len(by)}
RidesOf(by) == {[id |-> by[i].id, rides |-> by[i].rides] : i \in 1..Len(by)}

\* no addition of any of the values of s, in any order, rounds
RECURSIVE SetSum(_, _)
SetSum(s, T) == IF T = {} THEN 0 ELSE LET i == CHOOSE i \in T : TRUE IN s[i] + SetSum(s, T \ {i})
ExactSums(s) == \A T \in SUBSET (1..Len(s)) : IsFloat(SetSum(s, T))

NonBlank(t) ==
    LET Test(l) == l.kind # "blank"
    IN  SelectSeq(t, Test)
LinesOf(t, k) ==
    LET Test(l) == l.kind = k
    IN  SelectSeq(t, Test)
Kinds(t) == [i \in 1..Len(t) |-> t[i].kind]

Is2xx(status) == 200 <= status /\ status < 300
Is4xx5xx(status) == status \in 400..599

----------------------------------------------------------------------------
(* C1 *)

\* C1: for every now in the +09:00 offset, last_week_range_kst(now) returns
\* (start, end) with end a Monday at 00:00, end <= now < end + 7 days, and
\* start = end - 7 days exactly.
C1_LastWeekRange ==
    pc # "start" =>
        /\ end_kst.off = KstHours * TicksPerHour
        /\ start_kst.off = KstHours * TicksPerHour
        /\ end_kst.wall % (24 * TicksPerHour) = 0
        /\ (end_kst.wall \div (24 * TicksPerHour)) % 7 = 0
        /\ end_kst.wall <= now.wall
        /\ now.wall < end_kst.wall + 7 * 24 * TicksPerHour
        /\ start_kst.wall = end_kst.wall - 7 * 24 * TicksPerHour

\* now is itself exactly Monday midnight, and the window was computed
C1_Witness == pc # "start" /\ now = end_kst /\ start_kst.wall < end_kst.wall

(* C2 *)

\* C2: an activity contributes to its athlete's distance, elevation and ride
\* count if and only if its start, converted to +09:00, satisfies
\* start <= t < end; activities outside create no row.
C2_WindowFilter ==
    Built =>
        /\ \A id \in {activities[i].id : i \in 1..Len(activities)} :
              LET mine == MineOf(activities, id)
              IN  IF mine = <<>>
                  THEN ~HasAthlete(by_athlete, id)
                  ELSE /\ HasAthlete(by_athlete, id)
                       /\ by_athlete[IndexOf(by_athlete, id)].rides = Len(mine)
                       /\ by_athlete[IndexOf(by_athlete, id)].dist_m = FSum(FloatsOf(mine, "distance"))
                       /\ by_athlete[IndexOf(by_athlete, id)].elev_m
                              = FSum(FloatsOf(mine, "total_elevation_gain"))
        /\ \A i \in 1..Len(by_athlete) : by_athlete[i].id \in InWinIds
        /\ Len(by_athlete) = Cardinality(InWinIds)
        /\ Len(leaderboard) = Cardinality(InWinIds)

\* one activity exactly at start was counted, one exactly at end was not
C2_Witness ==
    /\ Built
    /\ \E i \in 1..Len(activities) : KstWallOf(activities[i]) = start_kst.wall
    /\ \E i \in 1..Len(activities) : KstWallOf(activities[i]) = end_kst.wall
    /\ Len(by_athlete) = 1
    /\ by_athlete[1].rides = 1
    /\ Len(activities) = 3

(* C3 *)

\* C3: the rows are in descending order of (km, elev): adjacent rows have
\* r_i.km > r_{i+1}.km, or equal km and r_i.elev >= r_{i+1}.elev; a row with
\* larger distance ranks before one with smaller distance.
C3_SortedDescending ==
    Built =>
        /\ \A i \in 1..(Len(leaderboard) - 1) :
              \/ leaderboard[i].km > leaderboard[i + 1].km
              \/ /\ leaderboard[i].km = leaderboard[i + 1].km
                 /\ leaderboard[i].elev >= leaderboard[i + 1].elev
        /\ \A i, j \in 1..Len(leaderboard) :
              leaderboard[i].km > leaderboard[j].km => i < j

\* B with one long flat ride ranks before A with two short hilly rides
C3_Witness ==
    /\ Built
    /\ Len(leaderboard) = 2
    /\ leaderboard[1].name = <<"B">> /\ leaderboard[1].rides = 1
    /\ leaderboard[2].name = <<"A">> /\ leaderboard[2].rides = 2
    /\ leaderboard[1].km > leaderboard[2].km
    /\ leaderboard[1].elev < leaderboard[2].elev
    /\ activities[1].id = <<1>>

(* C4 *)

\* C4 as stated: for every permutation of the activities, each athlete id
\* gets the same total distance, total elevation and ride count, and the
\* same ids have a row.
C4_PermutationSameTotals ==
    pc = "format" =>
        \A f \in Perms(Len(activities)) :
            TotalsOf(Aggregate(Permute(activities, f), start_kst, end_kst)) = TotalsOf(by_athlete)

\* C4 amended: for every permutation the same ids have a row with the same
\* ride count, and an athlete's totals are the same whenever no addition of
\* the athlete's in-window distances and elevations rounds.
C4_PermutationExactTotals ==
    pc = "format" =>
        \A f \in Perms(Len(activities)) :
            LET other == Aggregate(Permute(activities, f), start_kst, end_kst)
            IN  /\ RidesOf(other) = RidesOf(by_athlete)
                /\ \A i \in 1..Len(by_athlete) :
                      LET mine == MineOf(activities, by_athlete[i].id)
                          j    == IndexOf(other, by_athlete[i].id)
                      IN  /\ ExactSums(FloatsOf(mine, "distance"))
                             => other[j].dist_m = by_athlete[i].dist_m
                          /\ ExactSums(FloatsOf(mine, "total_elevation_gain"))
                             => other[j].elev_m = by_athlete[i].elev_m

\* an athlete with rides of different elevation whose sums are exact, after
\* another athlete's ride and an activity outside the window
C4_Witness ==
    /\ Built
    /\ Len(activities) = 3
    /\ Len(by_athlete) = 1
    /\ by_athlete[1].rides = 2
    /\ by_athlete[1].elev_m = QuantaPerUnit
    /\ activities[1].total_elevation_gain = <<0>>
    /\ ExactSums(FloatsOf(MineOf(activities, by_athlete[1].id), "distance"))

(* C5 *)

\* C5: when the activity list is empty or every activity lies outside the
\* window, the leaderboard is empty and the text is the header line, the
\* legend line and the "no activity" sentence, with no TOP header, no ranked
\* row and no summary line.
C5_EmptyReport ==
    /\ (Built /\ InWinIdx = {}) => leaderboard = <<>>
    /\ (Formatted /\ InWinIdx = {}) =>
          /\ Kinds(NonBlank(text)) = <<"header", "legend", "none">>
          /\ \A i \in 1..Len(text) : text[i].kind \notin {"top", "rank", "summary"}

\* activities were fetched, all of them outside the window
C5_Witness == Formatted /\ InWinIdx = {} /\ Len(activities) = 2

(* C8 *)

\* what C8 says of a text whose ranked lines are the first m rows
TopSection(k, m) ==
    /\ Len(text) >= 5 + m
    /\ text[5] = [kind |-> "top", k |-> k]
    /\ Len(LinesOf(text, "rank")) = m
    /\ \A i \in 1..m :
          text[5 + i] = [kind |-> "rank", rank |-> i, name |-> leaderboard[i].name,
                         km |-> Fmt1(leaderboard[i].km), elev |-> Fmt0(leaderboard[i].elev),
                         rides |-> leaderboard[i].rides]

\* C8 as stated: for every integer N the header is TOP k with
\* k = min(N, count) and exactly k ranked lines follow: the first k rows,
\* ranked 1..k.
C8_TopK ==
    (Formatted /\ leaderboard # <<>>) =>
        /\ Min(TOP_N, Len(leaderboard)) >= 0
        /\ TopSection(Min(TOP_N, Len(leaderboard)), Min(TOP_N, Len(leaderboard)))

\* C8 amended: the header is TOP k with k = min(N, count); for N >= 0 exactly
\* k ranked lines follow, the first k rows ranked 1..k; for N < 0 the ranked
\* lines are the first max(count + N, 0) rows.
C8_TopKNonNegative ==
    (Formatted /\ leaderboard # <<>>) =>
        IF TOP_N >= 0
        THEN TopSection(Min(TOP_N, Len(leaderboard)), Min(TOP_N, Len(leaderboard)))
        ELSE TopSection(Min(TOP_N, Len(leaderboard)), Max(Len(leaderboard) + TOP_N, 0))

\* three rows cut to the top two
C8_Witness == Formatted /\ Len(leaderboard) = 3 /\ TOP_N = 2 /\ Len(LinesOf(text, "rank")) = 2

(* C9 *)

\* C9: the summary line reports the sums of km, elevation and ride counts and
\* the participant count over all rows, also those beyond the top-N cut; the
\* ride total is the number of in-window activities and the participant count
\* the number of distinct athlete ids among them.
C9_SummaryOverAllRows ==
    (Formatted /\ leaderboard # <<>>) =>
        /\ Len(LinesOf(text, "summary")) = 1
        /\ text[Len(text)] =
              [kind |-> "summary",
               km |-> Fmt1(FSum(Column(leaderboard, "km"))),
               elev |-> Fmt0(FSum(Column(leaderboard, "elev"))),
               rides |-> Cardinality(InWinIdx),
               participants |-> Cardinality(InWinIds)]
        /\ Len(leaderboard) = Cardinality(InWinIds)

\* rows beyond the cut, and an activity outside the window
C9_Witness ==
    /\ Formatted
    /\ TOP_N = 1
    /\ Len(leaderboard) = 2
    /\ Len(activities) = 3
    /\ text[Len(text)].rides = 2

(* C6 *)

PostSucceeded == posts = 1 /\ pc \in {"print", "done"}
PostFailed == posts = 1 /\ pc = "failed" /\ error \in {"post:HTTPError", "post:RuntimeError"}

RefreshPassed ==
    /\ refresh_resp # <<>>
    /\ ~Is4xx5xx(refresh_resp[1].status)
    /\ refresh_resp[1].access_token # <<>>
RefreshFailed == refresh_resp # <<>> /\ ~RefreshPassed
\* a page request was answered with an error status
PageFailed == Len(batches) < Len(requests)

RECURSIVE ConcatTo(_, _)
ConcatTo(bs, n) == IF n = 0 THEN <<>> ELSE ConcatTo(bs, n - 1) \o bs[n]
Concat(bs) == ConcatTo(bs, Len(bs))

\* fetch_club_activities returned a list
FetchReturned == pc \in {"build", "format", "post", "print", "done"} \/ posts = 1

\* C10: pages 1, 2, 3, ... are requested in ascending order with no gap and no
\* repeat, at most max_pages of them, none after the first empty batch; the
\* loop stops at the first empty batch or after page max_pages; on success the
\* result is the concatenation, in page order, of the non-empty batches.
C10_Pagination ==
    /\ \A i \in 1..Len(requests) : requests[i] = i
    /\ Len(requests) <= 10
    /\ \A i \in 1..Len(batches) :
          batches[i] = <<>> => (i = Len(batches) /\ Len(requests) = i /\ pc # "fetch")
    /\ pc = "fetch" =>
          /\ Len(requests) < 10
          /\ Len(batches) = Len(requests)
          /\ page = Len(requests) + 1
    /\ FetchReturned =>
          /\ requests # <<>>
          /\ Len(batches) = Len(requests)
          /\ batches[Len(batches)] = <<>> \/ Len(requests) = 10
          /\ activities = Concat(batches)

\* ten non-empty pages: the loop stopped at the page cap
C10_Witness ==
    /\ pc = "build"
    /\ Len(requests) = 10
    /\ \A i \in 1..10 : batches[i] # <<>>
    /\ batches[1] # batches[2]
    /\ Len(activities) > 10

====
